---- MODULE Spec2Model ----
(***************************************************************************)
(* A model of plugin-screeps-rollup (src/src/index.ts): the directory to   *)
(* code-list conversion getCodeList, and the deployment sequence upload    *)
(* driven by the plugin's writeBundle hook.                                *)
(*                                                                         *)
(* Strings that the code takes apart (file names, code-list keys) are      *)
(* sequences of one-character strings.  File contents are sequences of     *)
(* bytes (0..255); text read from a file and base64 output are sequences   *)
(* of Unicode code points.                                                 *)
(***************************************************************************)
EXTENDS Integers, Sequences, FiniteSets, TLC

(***************************************************************************)
(* Bounds of the model.                                                    *)
(***************************************************************************)
\* The largest number of entries of a directory enumerated for getCodeList.
MaxFiles == 2
MaxItems == 2

(***************************************************************************)
(* JavaScript values.                                                      *)
(***************************************************************************)
\* The value of an absent optional string field.
Undefined == "<undefined>"

\* !x for an optional string: undefined and the empty string are falsy.
Falsy(x) == x = Undefined \/ x = ""

\* x || d for an optional string.
OrDefault(x, d) == IF Falsy(x) THEN d ELSE x

(***************************************************************************)
(* String operations used by getCodeList.                                  *)
(***************************************************************************)
UpperCase == <<"A","B","C","D","E","F","G","H","I","J","K","L","M",
               "N","O","P","Q","R","S","T","U","V","W","X","Y","Z">>
LowerCase == <<"a","b","c","d","e","f","g","h","i","j","k","l","m",
               "n","o","p","q","r","s","t","u","v","w","x","y","z">>

\* One character of String.prototype.toLowerCase (ASCII).
ToLowerChar(c) ==
  IF \E i \in 1..Len(UpperCase) : UpperCase[i] = c
  THEN LowerCase[CHOOSE i \in 1..Len(UpperCase) : UpperCase[i] = c]
  ELSE c

\* String.prototype.toLowerCase.
ToLowerCase(s) == [i \in 1..Len(s) |-> ToLowerChar(s[i])]

\* String.prototype.split(sep) for a one-character separator: the segments
\* between the separators, empty segments included.
RECURSIVE Split(_, _)
Split(s, sep) ==
  IF \E i \in 1..Len(s) : s[i] = sep
  THEN LET i == CHOOSE j \in 1..Len(s) :
                  s[j] = sep /\ \A k \in 1..(j - 1) : s[k] # sep
       IN <<SubSeq(s, 1, i - 1)>> \o Split(SubSeq(s, i + 1, Len(s)), sep)
  ELSE <<s>>

\* Array.prototype.join(sep).
RECURSIVE Join(_, _)
Join(parts, sep) ==
  IF Len(parts) = 0 THEN <<>>
  ELSE IF Len(parts) = 1 THEN parts[1]
  ELSE parts[1] \o <<sep>> \o Join(Tail(parts), sep)

(***************************************************************************)
(* fs.readFileSync(path, 'utf-8'): the WHATWG UTF-8 decoding of the bytes, *)
(* every maximal ill-formed subsequence replaced by U+FFFD.                *)
(***************************************************************************)
\* The number of continuation bytes that lead byte b asks for; -1: no lead.
Utf8Need(b) ==
  IF b <= 127 THEN 0
  ELSE IF b >= 194 /\ b <= 223 THEN 1
  ELSE IF b >= 224 /\ b <= 239 THEN 2
  ELSE IF b >= 240 /\ b <= 244 THEN 3
  ELSE -1

\* The range of the first continuation byte after lead byte b.
Utf8Lower(b) == IF b = 224 THEN 160 ELSE IF b = 240 THEN 144 ELSE 128
Utf8Upper(b) == IF b = 237 THEN 159 ELSE IF b = 244 THEN 143 ELSE 191

RECURSIVE Utf8From(_, _)
Utf8From(bs, i) ==
  IF i > Len(bs) THEN <<>>
  ELSE
    LET b == bs[i]
        need == Utf8Need(b)
        okAt(k) == /\ i + k <= Len(bs)
                   /\ bs[i + k] >= (IF k = 1 THEN Utf8Lower(b) ELSE 128)
                   /\ bs[i + k] <= (IF k = 1 THEN Utf8Upper(b) ELSE 191)
        good == CHOOSE n \in 0..3 :
                  /\ n <= need
                  /\ \A k \in 1..n : okAt(k)
                  /\ (n < need => ~okAt(n + 1))
        point == IF need = 1 THEN (b - 192) * 64 + (bs[i + 1] - 128)
                 ELSE IF need = 2
                   THEN (b - 224) * 4096 + (bs[i + 1] - 128) * 64
                        + (bs[i + 2] - 128)
                 ELSE (b - 240) * 262144 + (bs[i + 1] - 128) * 4096
                      + (bs[i + 2] - 128) * 64 + (bs[i + 3] - 128)
    IN IF need = 0 THEN <<b>> \o Utf8From(bs, i + 1)
       ELSE IF need = -1 THEN <<65533>> \o Utf8From(bs, i + 1)
       ELSE IF good = need THEN <<point>> \o Utf8From(bs, i + need + 1)
       ELSE <<65533>> \o Utf8From(bs, i + good + 1)

\* The text of a file's bytes.
Utf8Decode(bs) == Utf8From(bs, 1)

(***************************************************************************)
(* Buffer.prototype.toString('base64'): RFC 4648 base64 with padding.      *)
(***************************************************************************)
\* The code point of the base64 digit of value n (0..63).
B64Char(n) ==
  IF n < 26 THEN 65 + n
  ELSE IF n < 52 THEN 97 + (n - 26)
  ELSE IF n < 62 THEN 48 + (n - 52)
  ELSE IF n = 62 THEN 43
  ELSE 47

RECURSIVE Base64From(_, _)
Base64From(bs, i) ==
  LET r == Len(bs) - i + 1 IN
  IF r <= 0 THEN <<>>
  ELSE IF r = 1
    THEN <<B64Char(bs[i] \div 4), B64Char((bs[i] % 4) * 16), 61, 61>>
  ELSE IF r = 2
    THEN <<B64Char(bs[i] \div 4),
           B64Char((bs[i] % 4) * 16 + bs[i + 1] \div 16),
           B64Char((bs[i + 1] % 16) * 4), 61>>
  ELSE <<B64Char(bs[i] \div 4),
         B64Char((bs[i] % 4) * 16 + bs[i + 1] \div 16),
         B64Char((bs[i + 1] % 16) * 4 + bs[i + 2] \div 64),
         B64Char(bs[i + 2] % 64)>> \o Base64From(bs, i + 3)

Base64(bs) == Base64From(bs, 1)

(***************************************************************************)
(* getCodeList (index.ts 125-147).                                         *)
(*                                                                         *)
(* A directory entry is [name, isDir, bytes]; a code list is a function    *)
(* from keys to [kind |-> "text" | "binary", data |-> code points].        *)
(***************************************************************************)
Dot == "."

\* const filename = parts[0]
ModuleName(file) == Split(file, Dot)[1]

\* const extension = parts.length > 1 ? parts.slice(1).join('.').toLowerCase() : ''
Extension(file) ==
  LET parts == Split(file, Dot)
  IN IF Len(parts) > 1 THEN ToLowerCase(Join(Tail(parts), Dot)) ELSE <<>>

ExtJs == <<"j","s">>
ExtJsMap == <<"j","s",".","m","a","p">>

\* The key the loop body assigns for a file.
CodeKey(file) ==
  IF Extension(file) = ExtJs THEN ModuleName(file)
  ELSE IF Extension(file) = ExtJsMap THEN file
  ELSE ModuleName(file)

\* The value the loop body assigns for a file with the given bytes.
CodeValue(file, bytes) ==
  IF Extension(file) = ExtJs
    THEN [kind |-> "text", data |-> Utf8Decode(bytes)]
  ELSE IF Extension(file) = ExtJsMap
    THEN [kind |-> "text", data |-> Utf8Decode(bytes)]
  ELSE [kind |-> "binary", data |-> Base64(bytes)]

\* The key whose assignment on a plain object sets the prototype instead of
\* creating a property.
ProtoKey == <<"_","_","p","r","o","t","o","_","_">>

\* codeList[key] = value on the plain object codeList = {}.
SetProp(obj, key, value) ==
  IF key = ProtoKey THEN obj
  ELSE [k \in (DOMAIN obj) \cup {key} |-> IF k = key THEN value ELSE obj[k]]

\* const codeList = {}
EmptyCodeList == [k \in {} |-> [kind |-> "text", data |-> <<>>]]

\* One iteration of the for loop: reading a directory throws (EISDIR).
CodeListStep(cl, entry) ==
  IF ~cl.ok \/ entry.isDir THEN [ok |-> FALSE, codeList |-> cl.codeList]
  ELSE [ok |-> TRUE,
        codeList |-> SetProp(cl.codeList, CodeKey(entry.name),
                             CodeValue(entry.name, entry.bytes))]

RECURSIVE CodeListFrom(_, _, _)
CodeListFrom(cl, files, i) ==
  IF i > Len(files) \/ ~cl.ok THEN cl
  ELSE CodeListFrom(CodeListStep(cl, files[i]), files, i + 1)

\* getCodeList(distDir) for what lies at distDir: [isDir, files].  readdirSync
\* throws when distDir is no directory.
getCodeList_Swallow(dist) ==
  IF ~dist.isDir THEN [ok |-> TRUE, codeList |-> EmptyCodeList]
  ELSE [CodeListFrom([ok |-> TRUE, codeList |-> EmptyCodeList], dist.files, 1)
          EXCEPT !.ok = TRUE]

getCodeList(dist) ==
  IF ~dist.isDir THEN [ok |-> FALSE, codeList |-> EmptyCodeList]
  ELSE CodeListFrom([ok |-> TRUE, codeList |-> EmptyCodeList], dist.files, 1)

(***************************************************************************)
(* Configuration values (index.ts 13-97).                                  *)
(***************************************************************************)
\* const DEFAULT_CONFIG_FILE = 'screeps.config.json'
DEFAULT_CONFIG_FILE == "screeps.config.json"

\* A ScreepsServerConfig; defined = FALSE stands for the undefined that a
\* failed lookup yields.  port 0 stands for an absent port.
MkEntry(token, email, password, branch) ==
  [defined |-> TRUE, email |-> email, password |-> password, token |-> token,
   protocol |-> Undefined, hostname |-> Undefined, port |-> 0,
   path |-> Undefined, branch |-> branch]

UndefinedEntry ==
  [defined |-> FALSE, email |-> Undefined, password |-> Undefined,
   token |-> Undefined, protocol |-> Undefined, hostname |-> Undefined,
   port |-> 0, path |-> Undefined, branch |-> Undefined]

\* A ScreepsRollupConfig: a function from destination names to entries.
EmptyMap == [d \in {} |-> UndefinedEntry]

\* The property names a plain object inherits from Object.prototype.
ObjectPrototypeMembers ==
  {"constructor", "toString", "toLocaleString", "valueOf", "hasOwnProperty",
   "isPrototypeOf", "propertyIsEnumerable", "__proto__", "__defineGetter__",
   "__defineSetter__", "__lookupGetter__", "__lookupSetter__"}

\* What such a property read gives: a function, or Object.prototype for
\* '__proto__'; truthy, and none of the fields of a server config.
InheritedMember == MkEntry(Undefined, Undefined, Undefined, Undefined)

\* Line 176: options.config[options.destination], a property read on a plain
\* object: an own key, else through the prototype chain, else undefined.
Lookup(map, destination) ==
  IF destination \in DOMAIN map THEN map[destination]
  ELSE IF destination \in ObjectPrototypeMembers THEN InheritedMember
  ELSE UndefinedEntry

\* The config option: undefined, a path (typeof 'string') or a config object.
ConfigUndefined == [kind |-> "undefined", path |-> Undefined, map |-> EmptyMap]
ConfigPath(p) == [kind |-> "string", path |-> p, map |-> EmptyMap]
ConfigObject(m) == [kind |-> "object", path |-> Undefined, map |-> m]

\* !options.config
ConfigFalsy(c) == c.kind = "undefined" \/ (c.kind = "string" /\ c.path = "")

\* What lies at the config path: nothing, text JSON.parse rejects, or the
\* JSON text of a configuration map.
FileMissing == [exists |-> FALSE, parses |-> FALSE, map |-> EmptyMap]
FileMalformed == [exists |-> TRUE, parses |-> FALSE, map |-> EmptyMap]
FileWith(m) == [exists |-> TRUE, parses |-> TRUE, map |-> m]

(***************************************************************************)
(* Errors and results of a writeBundle invocation.                         *)
(***************************************************************************)
E_OUTPUT == "Output directory or file must be specified to read the code."
E_DESTINATION ==
  "Destination must be specified in options or allowNoDestination is set."
E_NOT_FOUND == "Config file not found"
E_PARSE == "SyntaxError (JSON.parse)"
E_LOOKUP == "No configuration found for destination"
E_CREDENTIALS ==
  "Either 'email' and 'password' or 'token' must be provided in the config."
E_GIT == "Failed to detect git branch. Ensure you are in a git repository."
E_GIT_THROWN == "error thrown by git.branch()"
E_AUTH == "Authentication failed"
E_FETCH == "Failed to fetch branches"
E_READ == "error thrown by fs.readdirSync / fs.readFileSync"
E_REMOTE == "error thrown by a remote call"

Errors == {E_OUTPUT, E_DESTINATION, E_NOT_FOUND, E_PARSE, E_LOOKUP,
           E_CREDENTIALS, E_GIT, E_GIT_THROWN, E_AUTH, E_FETCH, E_READ,
           E_REMOTE}

\* The promise of writeBundle: not yet invoked, pending, resolved, or
\* rejected with one of Errors.
R_NONE == "none"
R_PENDING == "pending"
R_RESOLVED == "resolved"

\* git.branch() outside a repository throws.
GitThrows == "<throws>"

(***************************************************************************)
(* upload, the synchronous part up to the first remote call                *)
(* (index.ts 152-205).                                                     *)
(***************************************************************************)
\* Lines 153-155 (and 255-257 of screeps): the default config file.
WithDefaultConfig(opts) ==
  IF ConfigFalsy(opts.config)
  THEN [opts EXCEPT !.config = ConfigPath(DEFAULT_CONFIG_FILE)]
  ELSE opts

\* Lines 168-174: the options after the config file was read, and the error
\* thrown if it could not be.
LoadConfig(opts, file) ==
  IF opts.config.kind # "string" THEN [error |-> "", options |-> opts]
  ELSE IF ~file.exists THEN [error |-> E_NOT_FOUND, options |-> opts]
  ELSE IF ~file.parses THEN [error |-> E_PARSE, options |-> opts]
  ELSE [error |-> "",
        options |-> [opts EXCEPT !.config = ConfigObject(file.map)]]

\* Line 181, negated: the entry passes the credential check.
CredentialsOk_EitherOf(config) ==
  ~((Falsy(config.email) /\ Falsy(config.password)) /\ Falsy(config.token))

CredentialsOk(config) ==
  ~((Falsy(config.email) \/ Falsy(config.password)) /\ Falsy(config.token))

\* Lines 185-194: the resolved branch, and the error thrown instead.
ResolveBranch_NoGitCheck(config, gitOut) ==
  IF config.branch = "auto"
  THEN IF gitOut = GitThrows THEN [error |-> E_GIT_THROWN, branch |-> ""]
       ELSE [error |-> "", branch |-> gitOut]
  ELSE [error |-> "", branch |-> OrDefault(config.branch, "default")]

ResolveBranch_NoDefault(config, gitOut) ==
  IF config.branch = "auto"
  THEN IF gitOut = GitThrows THEN [error |-> E_GIT_THROWN, branch |-> ""]
       ELSE IF Falsy(gitOut) THEN [error |-> E_GIT, branch |-> ""]
       ELSE [error |-> "", branch |-> gitOut]
  ELSE [error |-> "", branch |-> config.branch]

ResolveBranch(config, gitOut) ==
  IF config.branch = "auto"
  THEN IF gitOut = GitThrows THEN [error |-> E_GIT_THROWN, branch |-> ""]
       ELSE IF Falsy(gitOut) THEN [error |-> E_GIT, branch |-> ""]
       ELSE [error |-> "", branch |-> gitOut]
  ELSE [error |-> "", branch |-> OrDefault(config.branch, "default")]

\* Lines 196-205: the client; its token is the configured one, if any.
NoApi ==
  [email |-> Undefined, password |-> Undefined, token |-> Undefined,
   protocol |-> "", hostname |-> "", port |-> 0, path |-> "", branch |-> ""]

DEFAULT_PORT == 21025

NewApi(config, branch) ==
  [email |-> config.email, password |-> config.password,
   token |-> config.token,
   protocol |-> OrDefault(config.protocol, "https"),
   hostname |-> OrDefault(config.hostname, "screeps.com"),
   port |-> IF config.port = 0 THEN DEFAULT_PORT ELSE config.port,
   path |-> OrDefault(config.path, "/"),
   branch |-> branch]

\* The result recorded for git.branch() when upload did not call it.
NotCalled == "<not called>"

\* Lines 157-165: what upload does about the destination name: "skip" (warn
\* and return), "throw" or "pass".
DestinationCheck_IgnoreFlag(opts) ==
  IF ~Falsy(opts.destination) THEN "pass" ELSE "throw"

DestinationCheck(opts) ==
  IF ~Falsy(opts.destination) THEN "pass"
  ELSE IF opts.allowNoDestination THEN "skip"
  ELSE "throw"

\* Lines 168-174: the file-system calls made on the config path.
LoadEffects(opts, file) ==
  IF opts.config.kind # "string" THEN {}
  ELSE IF ~file.exists THEN {"existsSync"}
  ELSE {"existsSync", "readFileSync"}

\* Lines 153-205 as a whole.  stage names how far the checks came:
\* "destination", "file", "lookup", "credentials", "branch", "client";
\* effects are the file-system and source-control calls made, git the
\* result of git.branch() if it was called.
Prelude(opts0, file, gitOut) ==
  LET opts == WithDefaultConfig(opts0)
      loaded == LoadConfig(opts, file)
      read == LoadEffects(opts, file)
      config == Lookup(loaded.options.config.map, opts.destination)
      resolved == ResolveBranch(config, gitOut)
      asked == IF config.branch = "auto" THEN {"git.branch"} ELSE {}
      git == IF config.branch = "auto" THEN gitOut ELSE NotCalled
      stop(stage, err, warned, o, eff, g) ==
        [stage |-> stage, error |-> err, warned |-> warned, options |-> o,
         config |-> UndefinedEntry, branch |-> "", api |-> NoApi,
         effects |-> eff, git |-> g]
  IN IF DestinationCheck(opts) = "skip"
       THEN stop("destination", "", TRUE, opts, {}, NotCalled)
     ELSE IF DestinationCheck(opts) = "throw"
       THEN stop("destination", E_DESTINATION, FALSE, opts, {}, NotCalled)
     ELSE IF loaded.error # ""
       THEN stop("file", loaded.error, FALSE, loaded.options, read, NotCalled)
     ELSE IF ~config.defined
       THEN stop("lookup", E_LOOKUP, FALSE, loaded.options, read, NotCalled)
     ELSE IF ~CredentialsOk(config)
       THEN [stop("credentials", E_CREDENTIALS, FALSE, loaded.options,
                  read, NotCalled)
               EXCEPT !.config = config]
     ELSE IF resolved.error # ""
       THEN [stop("branch", resolved.error, FALSE, loaded.options,
                  read \cup asked, git)
               EXCEPT !.config = config]
     ELSE [stage |-> "client", error |-> "", warned |-> FALSE,
           options |-> loaded.options, config |-> config,
           branch |-> resolved.branch,
           api |-> NewApi(config, resolved.branch),
           effects |-> read \cup asked, git |-> git]

\* Lines 265-272: writeBundle calls upload: distDir is given and dryRun is
\* not set.
Uploads_IgnoreDryRun(opts, dd) == ~Falsy(dd)

Uploads(opts, dd) == ~Falsy(dd) /\ ~opts.dryRun

(***************************************************************************)
(* generateSourceMaps (index.ts 109-117).                                  *)
(*                                                                         *)
(* A bundle maps item names to items.  typeof item.source is kept in       *)
(* sourceKind; a string source is the sequence of its code points.         *)
(***************************************************************************)
\* 'module.exports = ' and ';' (line 114), and '.js.map' (line 112).
ExportsPrefix ==
  <<109, 111, 100, 117, 108, 101, 46, 101, 120, 112, 111, 114, 116, 115,
    32, 61, 32>>
ExportsSuffix == <<59>>
JsMapSuffix == <<".","j","s",".","m","a","p">>
MapSuffix == <<".","m","a","p">>

\* String.prototype.endsWith.
EndsWith(s, suffix) ==
  /\ Len(s) >= Len(suffix)
  /\ SubSeq(s, Len(s) - Len(suffix) + 1, Len(s)) = suffix

\* Lines 111-115 for one item.
SourceMapItem_AnyMap(itemName, item) ==
  IF /\ EndsWith(itemName, MapSuffix)
     /\ item.type = "asset"
     /\ item.sourceKind = "string"
  THEN [item EXCEPT !.source = ExportsPrefix \o item.source \o ExportsSuffix]
  ELSE item

SourceMapItem(itemName, item) ==
  IF /\ EndsWith(itemName, JsMapSuffix)
     /\ item.type = "asset"
     /\ item.sourceKind = "string"
  THEN [item EXCEPT !.source = ExportsPrefix \o item.source \o ExportsSuffix]
  ELSE item

\* Lines 109-117: Object.keys(bundle).forEach(...), every item in place.
generateSourceMaps(b) ==
  [itemName \in DOMAIN b |-> SourceMapItem(itemName, b[itemName])]

(***************************************************************************)
(* The remote calls (index.ts 207-229).                                    *)
(***************************************************************************)
\* A remote call as issued: its operation and arguments.
Call(op, email, password, src, branch, codeList) ==
  [op |-> op, email |-> email, password |-> password, src |-> src,
   branch |-> branch, code |-> codeList]

AuthCall(config) ==
  Call("auth", config.email, config.password, "", "", EmptyCodeList)
BranchesCall == Call("branches", Undefined, Undefined, "", "", EmptyCodeList)
CloneCall(b, cl) == Call("clone", Undefined, Undefined, "", b, cl)
SetCall(b, cl) == Call("set", Undefined, Undefined, "", b, cl)

\* Lines 208-218: the calls issued before upload first suspends.
CallsAtStart_NoAwait(api, config) ==
  IF Falsy(api.token) THEN <<AuthCall(config), BranchesCall>>
  ELSE <<BranchesCall>>

CallsAtStart(api, config) ==
  IF Falsy(api.token) THEN <<AuthCall(config)>> ELSE <<BranchesCall>>

\* Line 215: api.token = auth.token
ApiAfterAuth_Dropped(api, auth) == api

ApiAfterAuth(api, auth) == [api EXCEPT !.token = auth.token]

\* Line 224: branches.list.some(x => x.branch === branch)
branchExists_Never(list, b) == FALSE

branchExists(list, b) == b \in list

\* Lines 225-229: the call issued once the code list is built.
CallsAfterBranches_Inverted(exists, b, cl) ==
  IF exists THEN <<CloneCall(b, cl)>> ELSE <<SetCall(b, cl)>>

CallsAfterBranches(exists, b, cl) ==
  IF exists THEN <<SetCall(b, cl)>> ELSE <<CloneCall(b, cl)>>

\* Line 229: the call issued once clone-branch has returned.
CallsAfterClone(b, cl) == <<SetCall(b, cl)>>

\* The server's branches after a call that it carried out: clone-branch
\* creates the branch holding the code, set-code replaces the branch's code.
RemoteAfter(rem, call) ==
  IF call.op \in {"clone", "set"}
  THEN [x \in (DOMAIN rem) \cup {call.branch} |->
          IF x = call.branch THEN call.code ELSE rem[x]]
  ELSE rem

\* The promise a remote call's caller awaits: "await_" and the operation.
AwaitPc(op) ==
  CASE op = "auth" -> "await_auth"
    [] op = "branches" -> "await_branches"
    [] op = "clone" -> "await_clone"
    [] op = "set" -> "await_set"

Ops(cs) == {cs[i].op : i \in 1..Len(cs)}

(***************************************************************************)
(* State.                                                                  *)
(***************************************************************************)
VARIABLES
  given,        \* the options object as the caller built it, before screeps()
  options,      \* the options object screeps() closes over
  cfgFile,      \* what lies at the path options.config names
  fsDist,       \* the output directory "dist": [isDir, files]
  remote,       \* the server: a function from its branches to their code
  pc,           \* where writeBundle stands: "idle" or the call it awaits
  outcome,      \* the last writeBundle promise: R_NONE, R_PENDING, ...
  stage,        \* how far the last upload's checks came
  distDir,      \* the last invocation's outputOptions.dir || .file
  config,       \* upload's const config
  branch,       \* upload's let branch
  api,          \* upload's const api
  branches,     \* upload's const branches: [ok, list]
  code,         \* upload's const code: [ok, codeList]
  calls,        \* the remote calls the last invocation issued, in order
  returns,      \* the results the last invocation received, in order
  inflight,     \* the operations issued and not yet returned
  console,      \* what the last invocation wrote to the console
  fileAtInvoke, \* cfgFile as it was when the last invocation began
  remoteAtInvoke, \* remote as it was when the last invocation began
  prev,         \* the invocation before the last one, summarised
  sideEffects,  \* the file-system and git calls the last invocation made
  gitRead,      \* what git.branch() gave the last invocation, if called
  optionsAtInvoke, \* options as it was when the last invocation began
  emitted,      \* the bundle as the build hands it to generateBundle
  bundle,       \* that bundle as the plugin leaves it
  generated,    \* generateBundle ran on it
  files,        \* getCodeList: const files
  idx,          \* getCodeList: the loop's position in files
  codeList,     \* getCodeList: const codeList, [ok, codeList]
  lastStore,    \* getCodeList: the assignment the last iteration executed
  returned      \* getCodeList: the function has returned

uploadVars == <<given, options, cfgFile, fsDist, remote, pc, outcome, stage,
                distDir, config, branch, api, branches, code, calls, returns,
                inflight, console, fileAtInvoke, remoteAtInvoke, prev,
                sideEffects, gitRead, optionsAtInvoke>>
codeVars == <<files, idx, codeList, lastStore, returned>>
bundleVars == <<emitted, bundle, generated>>
vars == <<uploadVars, codeVars, bundleVars>>

(***************************************************************************)
(* The inputs enumerated.                                                  *)
(***************************************************************************)
Bytes_hi == <<104, 105>>
Bytes_mixed == <<195, 169, 255>>

Name_main_js == <<"m","a","i","n",".","j","s">>
Name_main_js_map == <<"m","a","i","n",".","j","s",".","m","a","p">>
Name_icon_png == <<"i","c","o","n",".","p","n","g">>

File(name, bytes) == [name |-> name, isDir |-> FALSE, bytes |-> bytes]
SubDir(name) == [name |-> name, isDir |-> TRUE, bytes |-> <<>>]

\* What is not a directory: readdirSync throws.
NotADirectory == [isDir |-> FALSE, files |-> <<>>]
Directory(fs) == [isDir |-> TRUE, files |-> fs]

\* The output directories of the deployment runs.
DistDirs ==
  { Directory(<<File(Name_main_js, Bytes_hi),
                File(Name_main_js_map, Bytes_hi),
                File(Name_icon_png, Bytes_mixed)>>),
    Directory(<<File(Name_main_js, Bytes_mixed)>>),
    Directory(<<File(Name_main_js, Bytes_hi), SubDir(<<"l","i","b">>)>>) }

\* The file names of the directories enumerated for getCodeList.
FileNames ==
  { <<"a",".","j","s">>, <<"a",".","J","S">>, <<"b",".","j","s">>,
    <<"a",".","j","s",".","m","a","p">>, <<"a",".","J","s",".","M","a","p">>,
    <<"a">>, <<"a",".","p","n","g">>, <<"a",".","b",".","j","s">>,
    <<".","j","s">>, <<"a",".">>, <<"a",".","m","a","p">>,
    <<"a",".",".","j","s">>, <<"a",".","j","s","x">>,
    ProtoKey \o <<".","j","s">>, ProtoKey }

DirEntries ==
  {File(n, b) : n \in FileNames, b \in {Bytes_hi, Bytes_mixed}}
    \cup {SubDir(n) : n \in {<<"a">>}}

\* The listings readdirSync may return: entries with distinct names, in any
\* order.
Listings ==
  UNION { { l \in [1..n -> DirEntries] :
              \A i, j \in 1..n : i # j => l[i].name # l[j].name }
          : n \in 0..MaxFiles }

Tokens == {Undefined, "tok"}
Emails == {Undefined, "me@example.com"}
Passwords == {Undefined, "secret"}
BranchNames == {Undefined, "", "auto", "main"}

Entries ==
  {MkEntry(t, e, p, b) :
     t \in Tokens, e \in Emails, p \in Passwords, b \in BranchNames}

ConfigMaps == {EmptyMap} \cup {[d \in {"main"} |-> e] : e \in Entries}

FileStates == {FileMissing, FileMalformed} \cup {FileWith(m) : m \in ConfigMaps}

Destinations == {Undefined, "", "main", "sim", "constructor"}

\* outputOptions.dir || outputOptions.file
OutputOptions ==
  { [dir |-> "dist", file |-> Undefined],
    [dir |-> Undefined, file |-> "dist/main.js"],
    [dir |-> Undefined, file |-> Undefined] }

GitOutcomes == {GitThrows, "", "dev"}
CallOutcomes == {"ok", "fail", "throw"}
AuthTokens == {"session"}

Text_old == [kind |-> "text", data |-> <<111, 108, 100>>]
OldCode == [k \in {<<"m","a","i","n">>} |-> Text_old]

EmptyRemote == [b \in {} |-> EmptyCodeList]
RemoteInits ==
  { EmptyRemote,
    [b \in {"default"} |-> OldCode],
    [b \in {"default", "main", "dev"} |-> OldCode] }

\* Bundle items: textual assets, a binary asset, a chunk.
Text_map == <<123, 125>>
TextAsset(src) ==
  [type |-> "asset", sourceKind |-> "string", source |-> src, code |-> <<>>]
BinaryAsset(bytes) ==
  [type |-> "asset", sourceKind |-> "object", source |-> bytes, code |-> <<>>]
Chunk(text) ==
  [type |-> "chunk", sourceKind |-> "undefined", source |-> <<>>,
   code |-> text]

BundleItems ==
  {TextAsset(Text_map), TextAsset(<<>>), BinaryAsset(Text_map),
   Chunk(Text_map)}

BundleNames ==
  {Name_main_js, Name_main_js_map, JsMapSuffix,
   <<"j","s",".","m","a","p">>,
   <<"a",".","c","s","s",".","m","a","p">>,
   <<"a",".","J","S",".","M","A","P">>}

EmptyBundle == [n \in {} |-> TextAsset(<<>>)]

\* Every bundle of at most MaxItems items.
Bundles ==
  UNION {[names -> BundleItems] :
           names \in {ns \in SUBSET BundleNames : Cardinality(ns) <= MaxItems}}

\* The bundles of a build of one module with its source map.
BuildBundles ==
  {EmptyBundle,
   [n \in {Name_main_js, Name_main_js_map} |->
      IF n = Name_main_js THEN Chunk(Text_map) ELSE TextAsset(Text_map)]}

\* The summary of an invocation that has not happened or did not deploy.
NoPrev ==
  [deployed |-> FALSE, branch |-> "", code |-> EmptyCodeList,
   cloned |-> FALSE, existed |-> FALSE]

(***************************************************************************)
(* screeps(options): the state after construction (index.ts 254-257).      *)
(***************************************************************************)
GivenOptions(c, d, a, dry) ==
  [config |-> c, destination |-> d, allowNoDestination |-> a, dryRun |-> dry]

InitUpload ==
  /\ \E c \in {ConfigUndefined, ConfigPath("my.config.json")}
              \cup {ConfigObject(m) : m \in ConfigMaps},
        d \in Destinations, a \in BOOLEAN, dry \in BOOLEAN :
       /\ given = GivenOptions(c, d, a, dry)
       /\ options = WithDefaultConfig(given)
  /\ cfgFile \in (IF given.config.kind = "object" THEN {FileMissing}
                  ELSE FileStates)
  /\ fsDist \in DistDirs
  /\ remote \in RemoteInits
  /\ pc = "idle"
  /\ outcome = R_NONE
  /\ stage = ""
  /\ distDir = Undefined
  /\ config = UndefinedEntry
  /\ branch = ""
  /\ api = NoApi
  /\ branches = [ok |-> FALSE, list |-> {}]
  /\ code = [ok |-> FALSE, codeList |-> EmptyCodeList]
  /\ calls = <<>>
  /\ returns = <<>>
  /\ inflight = {}
  /\ console = <<>>
  /\ fileAtInvoke = cfgFile
  /\ remoteAtInvoke = remote
  /\ prev = NoPrev
  /\ sideEffects = {}
  /\ gitRead = NotCalled
  /\ optionsAtInvoke = options

IdleCode ==
  /\ files = <<>>
  /\ idx = 1
  /\ codeList = [ok |-> TRUE, codeList |-> EmptyCodeList]
  /\ lastStore = [stored |-> FALSE, file |-> <<>>, bytes |-> <<>>,
                  key |-> <<>>, value |-> [kind |-> "text", data |-> <<>>]]
  /\ returned = FALSE

\* No bundle has been emitted.
IdleBundle ==
  /\ emitted = EmptyBundle
  /\ bundle = EmptyBundle
  /\ generated = FALSE

Init == InitUpload /\ IdleCode /\ IdleBundle

(***************************************************************************)
(* writeBundle and upload (index.ts 152-233, 264-273).                     *)
(*                                                                         *)
(* JavaScript runs a handler to its next await without interleaving, so    *)
(* one action is the code from one suspension point to the next.           *)
(***************************************************************************)
\* What lies at distDir: the output directory, or the single output file.
AtPath(dd) == IF dd = "dist" THEN fsDist ELSE NotADirectory

\* The call of operation op that the invocation issued.
IssuedCall(op) == calls[CHOOSE i \in 1..Len(calls) : calls[i].op = op]

\* Every remote call of the invocation returned "ok".
AllOk(rs) == \A i \in 1..Len(rs) : rs[i].outcome = "ok"

\* The invocation ended with set-code carried out and nothing failing.
Deployed ==
  /\ pc = "idle"
  /\ outcome = R_RESOLVED
  /\ "set" \in Ops(calls)
  /\ AllOk(returns)

\* The summary kept of the invocation that ends when the next one begins.
Summary ==
  IF Deployed
  THEN [deployed |-> TRUE, branch |-> branch, code |-> code.codeList,
        cloned |-> "clone" \in Ops(calls),
        existed |-> branch \in DOMAIN remoteAtInvoke]
  ELSE NoPrev

\* The result of a remote call is received and upload goes on to issue the
\* calls in issued, suspending at the first of them, or ends.
Continue(op, result, issued) ==
  /\ returns' = Append(returns, result)
  /\ calls' = calls \o issued
  /\ inflight' = (inflight \ {op}) \cup Ops(issued)
  /\ pc' = IF issued = <<>> THEN "idle" ELSE AwaitPc(issued[1].op)

Result(op, o, token) == [op |-> op, outcome |-> o, token |-> token]

\* writeBundle(outputOptions), up to upload's first await.
WriteBundle ==
  /\ pc = "idle"
  /\ \E out \in OutputOptions, gitOut \in GitOutcomes :
       LET dd == OrDefault(out.dir, out.file)
           uploads == Uploads(options, dd)
           r == Prelude(options, cfgFile, gitOut)
           issued == IF uploads /\ r.stage = "client"
                     THEN CallsAtStart(r.api, r.config) ELSE <<>>
       IN /\ distDir' = dd
          /\ options' = IF uploads THEN r.options ELSE options
          /\ stage' = IF Falsy(dd) THEN "output"
                      ELSE IF ~uploads THEN "dryRun" ELSE r.stage
          /\ outcome' = IF Falsy(dd) THEN E_OUTPUT
                        ELSE IF ~uploads THEN R_RESOLVED
                        ELSE IF r.error # "" THEN r.error
                        ELSE IF r.warned THEN R_RESOLVED
                        ELSE R_PENDING
          /\ config' = IF uploads THEN r.config ELSE UndefinedEntry
          /\ branch' = IF uploads THEN r.branch ELSE ""
          /\ api' = IF uploads THEN r.api ELSE NoApi
          /\ console' = IF uploads /\ r.warned
                        THEN <<[level |-> "warn", branch |-> ""]>> ELSE <<>>
          /\ calls' = issued
          /\ inflight' = Ops(issued)
          /\ pc' = IF issued = <<>> THEN "idle" ELSE AwaitPc(issued[1].op)
          /\ sideEffects' = IF uploads THEN r.effects ELSE {}
          /\ gitRead' = IF uploads THEN r.git ELSE NotCalled
  /\ optionsAtInvoke' = options
  /\ returns' = <<>>
  /\ branches' = [ok |-> FALSE, list |-> {}]
  /\ code' = [ok |-> FALSE, codeList |-> EmptyCodeList]
  /\ fileAtInvoke' = cfgFile
  /\ remoteAtInvoke' = remote
  /\ prev' = Summary
  /\ UNCHANGED <<given, cfgFile, fsDist, remote, codeVars, bundleVars>>

\* Lines 209-218: api.auth returns.
AuthReturn ==
  /\ pc = "await_auth"
  /\ \E o \in CallOutcomes, tok \in AuthTokens :
       LET auth == [ok |-> o = "ok",
                    token |-> IF o = "ok" THEN tok ELSE Undefined]
           issued == IF o = "ok" THEN <<BranchesCall>> ELSE <<>>
       IN /\ Continue("auth", Result("auth", o, auth.token), issued)
          /\ api' = IF o = "ok" THEN ApiAfterAuth(api, auth) ELSE api
          /\ outcome' = IF o = "throw" THEN E_REMOTE
                        ELSE IF o = "fail" THEN E_AUTH ELSE R_PENDING
  /\ UNCHANGED <<given, options, cfgFile, fsDist, remote, stage, distDir,
                 config, branch, branches, code, console, fileAtInvoke,
                 remoteAtInvoke, prev, sideEffects, gitRead, optionsAtInvoke,
                 codeVars, bundleVars>>

\* Lines 218-229: api.raw.user.branches returns.
BranchesReturn ==
  /\ pc = "await_branches"
  /\ \E o \in CallOutcomes :
       LET res == [ok |-> o = "ok",
                   list |-> IF o = "ok" THEN DOMAIN remote ELSE {}]
           built == IF o = "ok" THEN getCodeList(AtPath(distDir))
                    ELSE [ok |-> FALSE, codeList |-> EmptyCodeList]
           issued == IF o = "ok" /\ built.ok
                     THEN CallsAfterBranches(branchExists(res.list, branch),
                                             branch, built.codeList)
                     ELSE <<>>
       IN /\ Continue("branches", Result("branches", o, Undefined), issued)
          /\ branches' = res
          /\ code' = built
          /\ sideEffects' = IF o = "ok" THEN sideEffects \cup {"readdirSync"}
                            ELSE sideEffects
          /\ outcome' = IF o = "throw" THEN E_REMOTE
                        ELSE IF o = "fail" THEN E_FETCH
                        ELSE IF ~built.ok THEN E_READ ELSE R_PENDING
  /\ UNCHANGED <<given, options, cfgFile, fsDist, remote, stage, distDir,
                 config, branch, api, console, fileAtInvoke, remoteAtInvoke,
                 prev, gitRead, optionsAtInvoke, codeVars, bundleVars>>

\* Lines 226-229: api.raw.user.cloneBranch returns; its result is not read.
CloneReturn ==
  /\ pc = "await_clone"
  /\ \E o \in CallOutcomes :
       LET issued == IF o # "throw"
                     THEN CallsAfterClone(branch, code.codeList) ELSE <<>>
       IN /\ Continue("clone", Result("clone", o, Undefined), issued)
          /\ remote' = IF o = "ok"
                       THEN RemoteAfter(remote, IssuedCall("clone"))
                       ELSE remote
          /\ outcome' = IF o = "throw" THEN E_REMOTE ELSE R_PENDING
  /\ UNCHANGED <<given, options, cfgFile, fsDist, stage, distDir, config,
                 branch, api, branches, code, console, fileAtInvoke,
                 remoteAtInvoke, prev, sideEffects, gitRead, optionsAtInvoke,
                 codeVars, bundleVars>>

\* Lines 229-233: api.code.set returns; its result is not read.
SetReturn ==
  /\ pc = "await_set"
  /\ \E o \in CallOutcomes :
       /\ Continue("set", Result("set", o, Undefined), <<>>)
       /\ remote' = IF o = "ok" THEN RemoteAfter(remote, IssuedCall("set"))
                    ELSE remote
       /\ outcome' = IF o = "throw" THEN E_REMOTE ELSE R_RESOLVED
       /\ console' = IF o = "throw" THEN console
                     ELSE Append(console, [level |-> "log", branch |-> branch])
  /\ UNCHANGED <<given, options, cfgFile, fsDist, stage, distDir, config,
                 branch, api, branches, code, fileAtInvoke, remoteAtInvoke,
                 prev, sideEffects, gitRead, optionsAtInvoke, codeVars,
                 bundleVars>>

\* generateBundle (lines 261-263): the source maps of the bundle the build
\* emitted are rewritten in place before the bundle is written.
GenerateBundle ==
  /\ pc = "idle"
  /\ bundle' = generateSourceMaps(emitted)
  /\ generated' = TRUE
  /\ UNCHANGED <<emitted, uploadVars, codeVars>>

Next == WriteBundle \/ AuthReturn \/ BranchesReturn \/ CloneReturn \/ SetReturn

Spec == Init /\ [][Next]_vars

(***************************************************************************)
(* Watch mode: the same plugin instance serves one build after another,    *)
(* and the config file may be edited, removed or created between builds.   *)
(***************************************************************************)
WatchEntries ==
  { MkEntry("tok", Undefined, Undefined, "main"),
    MkEntry(Undefined, "me@example.com", "secret", Undefined),
    MkEntry(Undefined, "me@example.com", Undefined, "main") }

WatchFileStates ==
  {FileMissing, FileMalformed, FileWith(EmptyMap)}
    \cup {FileWith([d \in {"main"} |-> e]) : e \in WatchEntries}

EditConfigFile ==
  /\ pc = "idle"
  /\ cfgFile' \in WatchFileStates \ {cfgFile}
  /\ UNCHANGED <<given, options, fsDist, remote, pc, outcome, stage, distDir,
                 config, branch, api, branches, code, calls, returns,
                 inflight, console, fileAtInvoke, remoteAtInvoke, prev,
                 sideEffects, gitRead, optionsAtInvoke, codeVars,
                 bundleVars>>

InitWatch ==
  /\ Init
  /\ given.config \in {ConfigUndefined, ConfigPath("my.config.json")}
  /\ given.destination = "main"
  /\ ~given.dryRun
  /\ ~given.allowNoDestination
  /\ cfgFile \in WatchFileStates
  /\ fsDist = Directory(<<File(Name_main_js, Bytes_mixed)>>)
  /\ remote = EmptyRemote

NextWatch == Next \/ EditConfigFile

SpecWatch == InitWatch /\ [][NextWatch]_vars

(***************************************************************************)
(* getCodeList run one loop iteration at a time (index.ts 125-147).        *)
(***************************************************************************)
NoStore ==
  [stored |-> FALSE, file |-> <<>>, bytes |-> <<>>, key |-> <<>>,
   value |-> [kind |-> "text", data |-> <<>>]]

\* Lines 129-144: the loop body for files[idx].
LoopBody ==
  /\ ~returned
  /\ codeList.ok
  /\ idx <= Len(files)
  /\ codeList' = CodeListStep(codeList, files[idx])
  /\ lastStore' = IF files[idx].isDir THEN NoStore
                  ELSE [stored |-> TRUE, file |-> files[idx].name,
                        bytes |-> files[idx].bytes,
                        key |-> CodeKey(files[idx].name),
                        value |-> CodeValue(files[idx].name,
                                            files[idx].bytes)]
  /\ idx' = idx + 1
  /\ UNCHANGED <<files, returned, uploadVars, bundleVars>>

\* Line 146: return codeList.
ReturnCodeList ==
  /\ ~returned
  /\ codeList.ok
  /\ idx > Len(files)
  /\ returned' = TRUE
  /\ UNCHANGED <<files, idx, codeList, lastStore, uploadVars, bundleVars>>

\* A plugin on which no hook runs.
IdleUpload ==
  /\ InitUpload
  /\ given = GivenOptions(ConfigUndefined, Undefined, FALSE, TRUE)
  /\ cfgFile = FileMissing
  /\ fsDist = Directory(<<File(Name_main_js, Bytes_mixed)>>)
  /\ remote = EmptyRemote

\* Lines 126-127: const codeList = {}, files = fs.readdirSync(distDir).
InitCode ==
  /\ IdleUpload
  /\ IdleBundle
  /\ files \in Listings
  /\ idx = 1
  /\ codeList = [ok |-> TRUE, codeList |-> EmptyCodeList]
  /\ lastStore = NoStore
  /\ returned = FALSE

NextCode == LoopBody \/ ReturnCodeList

SpecCode == InitCode /\ [][NextCode]_vars

(***************************************************************************)
(* generateBundle on its own: any bundle of at most MaxItems items.        *)
(***************************************************************************)
InitMaps ==
  /\ IdleUpload
  /\ IdleCode
  /\ emitted \in Bundles
  /\ bundle = emitted
  /\ generated = FALSE

NextMaps == GenerateBundle

SpecMaps == InitMaps /\ [][NextMaps]_vars

(***************************************************************************)
(* A build: generateBundle, then writeBundle, with and without dryRun.     *)
(***************************************************************************)
BuildConfigs ==
  {ConfigUndefined,
   ConfigObject([d \in {"main"} |-> MkEntry("tok", Undefined, Undefined, "auto")]),
   ConfigObject([d \in {"main"} |->
                   MkEntry(Undefined, "me@example.com", "secret", Undefined)])}

InitBuild ==
  /\ InitUpload
  /\ IdleCode
  /\ given.config \in BuildConfigs
  /\ cfgFile \in {FileMissing, FileMalformed}
  /\ fsDist = Directory(<<File(Name_main_js, Bytes_mixed)>>)
  /\ remote = EmptyRemote
  /\ emitted \in BuildBundles
  /\ bundle = emitted
  /\ generated = FALSE

NextBuild == GenerateBundle \/ Next

SpecBuild == InitBuild /\ [][NextBuild]_vars

(***************************************************************************)
(* Properties.                                                             *)
(***************************************************************************)
\* The position of an operation in the chain authenticate, list-branches,
\* clone-branch, set-code.
Rank(op) ==
  CASE op = "auth" -> 1 [] op = "branches" -> 2
    [] op = "clone" -> 3 [] op = "set" -> 4

\* The index in calls of the call of operation op (0: not issued).
IndexOf(op) ==
  IF op \in Ops(calls)
  THEN CHOOSE i \in 1..Len(calls) : calls[i].op = op ELSE 0

\* The result received for operation op ("none": not received).
OutcomeOf(op) ==
  IF \E i \in 1..Len(returns) : returns[i].op = op
  THEN returns[CHOOSE i \in 1..Len(returns) : returns[i].op = op].outcome
  ELSE "none"

\* C1: once list-branches has reported success and the code mapping is
\* built, clone-branch("", branch, code) has been issued exactly if the
\* resolved branch is not in the returned list; and unless a clone-branch
\* call is pending or threw, set-code(branch, code) has been issued, after
\* the clone-branch call if there is one.
C1_CloneIffMissingThenSet ==
  (branches.ok /\ code.ok) =>
    /\ ("clone" \in Ops(calls)) <=> (branch \notin branches.list)
    /\ "clone" \in Ops(calls) =>
         /\ calls[IndexOf("clone")].src = ""
         /\ calls[IndexOf("clone")].branch = branch
         /\ calls[IndexOf("clone")].code = code.codeList
    /\ ("clone" \notin Ops(calls) \/ OutcomeOf("clone") \in {"ok", "fail"}) =>
         /\ "set" \in Ops(calls)
         /\ IndexOf("set") > IndexOf("clone")
         /\ calls[IndexOf("set")].branch = branch
         /\ calls[IndexOf("set")].code = code.codeList

\* C1 witness: the branch was missing from the list, clone-branch returned
\* and set-code was issued after it.
C1_Witness ==
  /\ branches.ok /\ code.ok
  /\ branch \notin branches.list
  /\ OutcomeOf("clone") = "ok"
  /\ IndexOf("set") > IndexOf("clone")
  /\ OutcomeOf("set") = "ok"

\* C2: the remote calls of one invocation are issued in the order
\* authenticate, list-branches, clone-branch, set-code, each only after the
\* result of the one before it was received, and never two at a time.
C2_OrderedChain ==
  /\ Cardinality(inflight) <= 1
  /\ \A i, j \in 1..Len(calls) :
       i < j => Rank(calls[i].op) < Rank(calls[j].op)
  /\ Len(calls) <= Len(returns) + 1
  /\ \A i \in 1..Len(returns) : returns[i].op = calls[i].op
  /\ inflight = {calls[i].op : i \in (Len(returns) + 1)..Len(calls)}

\* C2 witness: all four calls were issued, three have returned and set-code
\* is in flight.
C2_Witness ==
  /\ Len(calls) = 4
  /\ Len(returns) = 3
  /\ inflight = {"set"}

\* C3 (the claim as stated): no operation is called twice, and once a step
\* has failed (a remote call threw or reported failure) no later remote call
\* is issued, no success notice is written and the invocation ends in an
\* error.
C3_AnyFailureAborts ==
  /\ \A i, j \in 1..Len(calls) : i # j => calls[i].op # calls[j].op
  /\ \A i \in 1..Len(returns) :
       returns[i].outcome # "ok" =>
         /\ Len(calls) = i
         /\ \A k \in 1..Len(console) : console[k].level # "log"
         /\ outcome \in Errors

\* C4: when two consecutive invocations both deploy (every remote call
\* succeeds) the same code mapping to the same branch, then the second one
\* issues no clone-branch call and leaves the server as the first one left
\* it, with the branch holding the code mapping; and if the branch existed
\* before the first one, that one issued no clone-branch call either.
C4_Idempotent ==
  (Deployed /\ prev.deployed /\ prev.branch = branch
     /\ prev.code = code.codeList) =>
    /\ "clone" \notin Ops(calls)
    /\ remote = remoteAtInvoke
    /\ branch \in DOMAIN remote
    /\ remote[branch] = code.codeList
    /\ prev.existed => ~prev.cloned
    /\ ~prev.existed => prev.cloned

\* C4 witness: the first invocation created the branch, the second one
\* deployed to it again.
C4_Witness ==
  /\ Deployed
  /\ prev.deployed
  /\ prev.cloned
  /\ prev.branch = branch
  /\ prev.code = code.codeList

\* C5 (the claim as stated): a plugin created with a config file path
\* resolves the destination entry of every deploying invocation from the
\* content the file has when that invocation begins.
C5_ConfigReadEachBuild ==
  (given.config.kind # "object"
     /\ stage \in {"lookup", "credentials", "branch", "client"}) =>
    /\ fileAtInvoke.exists
    /\ fileAtInvoke.parses
    /\ config = Lookup(fileAtInvoke.map, options.destination)

\* The module name and the extension of a file name as the claims word
\* them: the name up to its first '.', and what follows that '.' lower-cased.
FirstDot(f) ==
  IF \E i \in 1..Len(f) : f[i] = "."
  THEN CHOOSE i \in 1..Len(f) : f[i] = "." /\ \A k \in 1..(i - 1) : f[k] # "."
  ELSE Len(f) + 1
NameBeforeDot(f) == SubSeq(f, 1, FirstDot(f) - 1)
LoweredAfterDot(f) == ToLowerCase(SubSeq(f, FirstDot(f) + 1, Len(f)))

\* The key under which the claims say a file is stored.
ClaimedKey(f) ==
  IF LoweredAfterDot(f) = <<"j","s",".","m","a","p">> THEN f
  ELSE NameBeforeDot(f)

\* C6 (the claim as stated): the code mapping getCodeList returns has one
\* entry per file of the directory: as many keys as files, and every file's
\* content under its own key.
C6_OneEntryPerFile ==
  returned =>
    /\ Cardinality(DOMAIN codeList.codeList) = Len(files)
    /\ \A i \in 1..Len(files) :
         /\ ClaimedKey(files[i].name) \in DOMAIN codeList.codeList
         /\ codeList.codeList[ClaimedKey(files[i].name)]
              = CodeValue(files[i].name, files[i].bytes)

\* C7: the assignment a loop iteration executes for a file: extension 'js'
\* assigns the file's text to the module name, extension 'js.map' assigns
\* the file's text to the full file name, every other extension (the empty
\* one included) assigns {binary: base64 of the bytes} to the module name;
\* and the code list then holds that value under that key.
C7_Classification ==
  lastStore.stored =>
    LET f == lastStore.file
        ext == LoweredAfterDot(f)
        text == [kind |-> "text", data |-> Utf8Decode(lastStore.bytes)]
        binary == [kind |-> "binary", data |-> Base64(lastStore.bytes)]
    IN /\ ext = <<"j","s">> =>
            lastStore.key = NameBeforeDot(f) /\ lastStore.value = text
       /\ ext = <<"j","s",".","m","a","p">> =>
            lastStore.key = f /\ lastStore.value = text
       /\ ext \notin {<<"j","s">>, <<"j","s",".","m","a","p">>} =>
            lastStore.key = NameBeforeDot(f) /\ lastStore.value = binary
       /\ lastStore.key \in DOMAIN codeList.codeList
       /\ codeList.codeList[lastStore.key] = lastStore.value

\* C8: when upload has found the destination's entry: if the entry has no
\* token and lacks email or password, upload fails with the credential
\* error and no remote call was issued; otherwise the credential check
\* passes.
C8_CredentialCheck ==
  (stage \in {"credentials", "branch", "client"}) =>
    LET lacks == /\ config.token = Undefined
                 /\ (config.email = Undefined \/ config.password = Undefined)
    IN /\ lacks => (outcome = E_CREDENTIALS /\ calls = <<>> /\ inflight = {})
       /\ ~lacks => (outcome # E_CREDENTIALS /\ stage # "credentials")

\* C8 witness: an entry with an email but neither password nor token was
\* rejected.
C8_Witness ==
  /\ stage = "credentials"
  /\ config.email # Undefined
  /\ config.password = Undefined
  /\ outcome = E_CREDENTIALS

\* C9: in an invocation that reaches the remote calls, authenticate is
\* called exactly if the entry has no token; with a token list-branches is
\* the first call; if authenticate reports failure upload fails with the
\* authentication error and list-branches is never called; if it succeeds
\* the client holds the returned token when list-branches is called.
C9_TokenPrecedence ==
  (stage = "client") =>
    /\ ("auth" \in Ops(calls)) <=> (config.token = Undefined)
    /\ "auth" \in Ops(calls) =>
         /\ calls[IndexOf("auth")].email = config.email
         /\ calls[IndexOf("auth")].password = config.password
    /\ config.token # Undefined =>
         (calls[1].op = "branches" /\ api.token = config.token)
    /\ OutcomeOf("auth") = "fail" =>
         (outcome = E_AUTH /\ "branches" \notin Ops(calls))
    /\ OutcomeOf("auth") = "ok" =>
         /\ "branches" \in Ops(calls)
         /\ api.token = returns[1].token
         /\ api.token \in AuthTokens

\* C9 witness: an entry without token authenticated and list-branches was
\* called with the returned token on the client.
C9_Witness ==
  /\ stage = "client"
  /\ config.token = Undefined
  /\ OutcomeOf("auth") = "ok"
  /\ "branches" \in Ops(calls)
  /\ api.token = "session"

\* C10: when an invocation runs upload with a destination name and a loaded
\* config map that has no entry of that name, it fails with the lookup error
\* and issues no remote call.
C10_LookupError ==
  (/\ stage \notin {"", "output", "dryRun"}
   /\ ~Falsy(options.destination)
   /\ options.config.kind = "object"
   /\ options.destination \notin DOMAIN options.config.map) =>
    /\ outcome = E_LOOKUP
    /\ calls = <<>>
    /\ inflight = {}
    /\ pc = "idle"

(***************************************************************************)
(* C11: when the configured branch is 'auto' and git.branch() yields no    *)
(* branch name (it throws, or returns an empty value), upload fails at the *)
(* branch resolution with the detection error and no remote call is        *)
(* issued; a detected name is the resolved branch.  Any other non-empty    *)
(* configured branch is the resolved branch as it stands, without asking   *)
(* git, and an omitted branch resolves to 'default'.                       *)
(***************************************************************************)
C11_BranchResolution ==
  stage \in {"branch", "client"} =>
    /\ config.branch = "auto" =>
         /\ gitRead # NotCalled
         /\ (gitRead = GitThrows \/ Falsy(gitRead)) =>
              /\ stage = "branch"
              /\ outcome = (IF gitRead = GitThrows THEN E_GIT_THROWN
                            ELSE E_GIT)
              /\ calls = <<>>
              /\ pc = "idle"
         /\ ~(gitRead = GitThrows \/ Falsy(gitRead)) =>
              /\ stage = "client"
              /\ branch = gitRead
    /\ (config.branch # "auto" /\ ~Falsy(config.branch)) =>
         /\ stage = "client"
         /\ branch = config.branch
         /\ gitRead = NotCalled
    /\ config.branch = Undefined =>
         /\ stage = "client"
         /\ branch = "default"
         /\ gitRead = NotCalled

\* An 'auto' branch where git.branch() returned no name.
C11_Witness ==
  /\ stage = "branch"
  /\ config.branch = "auto"
  /\ gitRead = ""
  /\ outcome = E_GIT
  /\ calls = <<>>

(***************************************************************************)
(* C12: when upload runs without a destination (omitted or empty), it      *)
(* logs a warning and returns normally if allowNoDestination is set, and   *)
(* fails with the configuration error otherwise; either way it leaves the  *)
(* config file unchecked and unread, asks git nothing, issues no remote    *)
(* call and leaves options as they were.                                   *)
(***************************************************************************)
C12_NoDestination ==
  (stage \notin {"", "output", "dryRun"}
     /\ Falsy(optionsAtInvoke.destination)) =>
    /\ stage = "destination"
    /\ optionsAtInvoke.allowNoDestination =>
         /\ outcome = R_RESOLVED
         /\ console = <<[level |-> "warn", branch |-> ""]>>
    /\ ~optionsAtInvoke.allowNoDestination =>
         /\ outcome = E_DESTINATION
         /\ console = <<>>
    /\ sideEffects = {}
    /\ gitRead = NotCalled
    /\ calls = <<>>
    /\ pc = "idle"
    /\ options = optionsAtInvoke

\* A skipped upload while a config file that names servers is on disk.
C12_Witness ==
  /\ stage = "destination"
  /\ Falsy(optionsAtInvoke.destination)
  /\ optionsAtInvoke.allowNoDestination
  /\ outcome = R_RESOLVED
  /\ console # <<>>
  /\ optionsAtInvoke.config.kind = "string"
  /\ fileAtInvoke.exists

\* The errors upload can end in.
DeploymentErrors == Errors \ {E_OUTPUT}

(***************************************************************************)
(* C13: with dryRun set, generateBundle still rewrites the source maps of  *)
(* the bundle, and writeBundle never calls upload: whatever destination,   *)
(* config and allowNoDestination are, it issues no remote call, makes no   *)
(* file-system or git call (no config file, no output directory), leaves   *)
(* options alone, logs nothing and ends in none of upload's errors: it     *)
(* resolves, unless the build gave neither output.dir nor output.file,     *)
(* which writeBundle rejects before it looks at dryRun.                    *)
(***************************************************************************)
C13_DryRunSkipsDeployment ==
  options.dryRun =>
    /\ generated =>
         /\ DOMAIN bundle = DOMAIN emitted
         /\ \A n \in DOMAIN emitted :
              (EndsWith(n, JsMapSuffix) /\ emitted[n].type = "asset"
                 /\ emitted[n].sourceKind = "string") =>
                bundle[n].source =
                  ExportsPrefix \o emitted[n].source \o ExportsSuffix
    /\ stage # "" =>
         /\ stage \in {"output", "dryRun"}
         /\ pc = "idle"
         /\ calls = <<>>
         /\ inflight = {}
         /\ sideEffects = {}
         /\ gitRead = NotCalled
         /\ console = <<>>
         /\ options = optionsAtInvoke
         /\ outcome \notin DeploymentErrors
         /\ outcome = (IF Falsy(distDir) THEN E_OUTPUT ELSE R_RESOLVED)

\* A dry run of a build that would otherwise deploy: valid inline config,
\* destination in it, source map in the bundle, output directory given.
C13_Witness ==
  /\ options.dryRun
  /\ generated
  /\ Name_main_js_map \in DOMAIN bundle
  /\ bundle[Name_main_js_map].source # emitted[Name_main_js_map].source
  /\ stage = "dryRun"
  /\ distDir = "dist"
  /\ outcome = R_RESOLVED
  /\ options.destination = "main"
  /\ options.config.kind = "object"
  /\ CredentialsOk(Lookup(options.config.map, "main"))

\* The name ends in the seven characters '.js.map'.
IsJsMapName(n) ==
  /\ Len(n) >= 7
  /\ <<n[Len(n) - 6], n[Len(n) - 5], n[Len(n) - 4], n[Len(n) - 3],
       n[Len(n) - 2], n[Len(n) - 1], n[Len(n)]>>
       = <<".", "j", "s", ".", "m", "a", "p">>

(***************************************************************************)
(* C14: generateSourceMaps changes exactly the assets whose name ends in   *)
(* '.js.map' and whose content is a string: content c becomes              *)
(* 'module.exports = ' + c + ';' and nothing else of the item changes.     *)
(* Every other item stays identical, no item is added or removed, and an   *)
(* empty bundle stays empty.                                               *)
(***************************************************************************)
C14_SourceMapFrame ==
  generated =>
    /\ DOMAIN bundle = DOMAIN emitted
    /\ \A n \in DOMAIN emitted :
         IF /\ IsJsMapName(n)
            /\ emitted[n].type = "asset"
            /\ emitted[n].sourceKind = "string"
         THEN /\ bundle[n].source =
                   ExportsPrefix \o emitted[n].source \o ExportsSuffix
              /\ bundle[n].source # emitted[n].source
              /\ bundle[n].type = emitted[n].type
              /\ bundle[n].sourceKind = emitted[n].sourceKind
              /\ bundle[n].code = emitted[n].code
         ELSE bundle[n] = emitted[n]
    /\ emitted = EmptyBundle => bundle = EmptyBundle

\* A bundle with a textual '.js.map' asset, wrapped, next to a textual
\* '.css.map' asset, left alone.
C14_Witness ==
  /\ generated
  /\ DOMAIN emitted = {Name_main_js_map, <<"a",".","c","s","s",".","m","a","p">>}
  /\ emitted[Name_main_js_map] = TextAsset(Text_map)
  /\ emitted[<<"a",".","c","s","s",".","m","a","p">>] = TextAsset(Text_map)
  /\ bundle[Name_main_js_map].source = ExportsPrefix \o Text_map \o ExportsSuffix
  /\ bundle[<<"a",".","c","s","s",".","m","a","p">>] = TextAsset(Text_map)

(***************************************************************************)
(* C15: the plugin options are read-only after construction: no            *)
(* generateBundle or writeBundle invocation changes any field of the       *)
(* options object; in particular config keeps the value, path or inline    *)
(* map, that the caller supplied (the default file name if none).          *)
(***************************************************************************)
C15_OptionsReadOnly == options = WithDefaultConfig(given)

\* Reading the output path fails: it is no directory (a single output
\* file), or one of its entries is a directory.
ReadFails(dist) ==
  \/ ~dist.isDir
  \/ \E i \in 1..Len(dist.files) : dist.files[i].isDir

\* The positions in calls of the remote writes.
RemoteWrites == {i \in 1..Len(calls) : calls[i].op \in {"clone", "set"}}

(***************************************************************************)
(* C16: the output path is read only after list-branches, and before it    *)
(* authenticate if it was called, have succeeded, and before any remote    *)
(* write.  If reading it fails, the run ends in the read error after those *)
(* remote reads, with no clone-branch and no set-code issued and the       *)
(* server untouched.  Every clone-branch and set-code call carries the     *)
(* mapping of the whole output directory as read in this run.              *)
(***************************************************************************)
C16_MappingBuiltBeforeWrites ==
  /\ "readdirSync" \in sideEffects =>
       /\ OutcomeOf("branches") = "ok"
       /\ "auth" \in Ops(calls) => OutcomeOf("auth") = "ok"
  /\ RemoteWrites # {} =>
       /\ "readdirSync" \in sideEffects
       /\ ~ReadFails(AtPath(distDir))
       /\ code.ok
       /\ code.codeList =
            CodeListFrom([ok |-> TRUE, codeList |-> EmptyCodeList],
                         AtPath(distDir).files, 1).codeList
       /\ \A i \in RemoteWrites : calls[i].code = code.codeList
  /\ (OutcomeOf("branches") = "ok" /\ ReadFails(AtPath(distDir))) =>
       /\ "readdirSync" \in sideEffects
       /\ outcome = E_READ
       /\ pc = "idle"
       /\ RemoteWrites = {}
       /\ remote = remoteAtInvoke

\* writeBundle was given a single file path: authenticate and list-branches
\* succeeded, then reading the path failed.
C16_Witness ==
  /\ distDir = "dist/main.js"
  /\ OutcomeOf("auth") = "ok"
  /\ OutcomeOf("branches") = "ok"
  /\ outcome = E_READ
  /\ RemoteWrites = {}

\* The config map upload works with, told from the options and the config
\* file as they were when the invocation began.
MapAtInvoke ==
  IF optionsAtInvoke.config.kind = "object" THEN optionsAtInvoke.config.map
  ELSE fileAtInvoke.map

\* The first of upload's checks before the network that fails, in the order
\* destination, config file found, config file parses, destination in the
\* config, credentials, branch detection; "skip" for the allowed missing
\* destination and "" when every check passes.
FirstFailure ==
  LET o == optionsAtInvoke
      fromFile == o.config.kind = "string"
  IN IF Falsy(o.destination)
       THEN IF o.allowNoDestination THEN "skip" ELSE E_DESTINATION
     ELSE IF fromFile /\ ~fileAtInvoke.exists THEN E_NOT_FOUND
     ELSE IF fromFile /\ ~fileAtInvoke.parses THEN E_PARSE
     ELSE IF o.destination \notin DOMAIN MapAtInvoke THEN E_LOOKUP
     ELSE IF /\ Falsy(MapAtInvoke[o.destination].token)
             /\ \/ Falsy(MapAtInvoke[o.destination].email)
                \/ Falsy(MapAtInvoke[o.destination].password)
       THEN E_CREDENTIALS
     ELSE IF MapAtInvoke[o.destination].branch = "auto"
       THEN IF gitRead = GitThrows THEN E_GIT_THROWN
            ELSE IF Falsy(gitRead) THEN E_GIT ELSE ""
     ELSE ""

\* The file-system and git calls made up to and including the check that
\* ends in error e.
EffectsUpTo(e) ==
  LET fromFile == optionsAtInvoke.config.kind = "string"
      load == IF fromFile THEN {"existsSync", "readFileSync"} ELSE {}
  IN CASE e \in {"skip", E_DESTINATION} -> {}
       [] e = E_NOT_FOUND -> {"existsSync"}
       [] e \in {E_PARSE, E_LOOKUP, E_CREDENTIALS} -> load
       [] e \in {E_GIT, E_GIT_THROWN} -> load \cup {"git.branch"}

(***************************************************************************)
(* C17: when upload runs, it ends in the error of the first failing check  *)
(* in the order missing destination, config file not found, config parse   *)
(* error, destination not in the config, missing credentials, branch       *)
(* detection, whatever later checks would also fail; the later checks and  *)
(* their side effects do not happen: no config file access after a missing *)
(* destination, no read of a file that does not exist, no git query unless *)
(* every earlier check passed, and no remote call.  If no check fails the  *)
(* API client is created.                                                  *)
(***************************************************************************)
C17_FirstErrorWins ==
  stage \notin {"", "output", "dryRun"} =>
    IF FirstFailure = ""
    THEN /\ stage = "client"
         /\ outcome \notin {E_DESTINATION, E_NOT_FOUND, E_PARSE, E_LOOKUP,
                            E_CREDENTIALS, E_GIT, E_GIT_THROWN}
    ELSE /\ outcome = (IF FirstFailure = "skip" THEN R_RESOLVED
                       ELSE FirstFailure)
         /\ sideEffects = EffectsUpTo(FirstFailure)
         /\ FirstFailure \notin {E_GIT, E_GIT_THROWN} => gitRead = NotCalled
         /\ calls = <<>>
         /\ inflight = {}
         /\ pc = "idle"

\* The positions in calls of the calls that name a branch.
BranchCalls == {i \in 1..Len(calls) : calls[i].op \in {"clone", "set"}}

(***************************************************************************)
(* C18: in every state where a remote call has been issued in the current  *)
(* invocation, the destination is non-empty and has an entry in the loaded *)
(* config map, that entry has a token or both email and password, and the  *)
(* resolved branch is a non-empty string: the detected branch for 'auto',  *)
(* 'default' for an omitted or empty branch, the configured name           *)
(* otherwise.  The client and every clone-branch and set-code call of the  *)
(* invocation carry that same branch.                                      *)
(***************************************************************************)
C18_RemoteCallPreconditions ==
  calls # <<>> =>
    /\ ~Falsy(options.destination)
    /\ options.config.kind = "object"
    /\ options.destination \in DOMAIN options.config.map
    /\ LET e == options.config.map[options.destination]
       IN /\ \/ ~Falsy(e.token)
             \/ ~Falsy(e.email) /\ ~Falsy(e.password)
          /\ e.branch = "auto" => gitRead \notin {NotCalled, GitThrows}
          /\ branch = (IF e.branch = "auto" THEN gitRead
                       ELSE IF e.branch \in {Undefined, ""} THEN "default"
                       ELSE e.branch)
    /\ branch \notin {Undefined, ""}
    /\ api.branch = branch
    /\ \A i \in BranchCalls : calls[i].branch = branch

\* An entry with an empty branch name: clone-branch and set-code were both
\* issued for 'default'.
C18_Witness ==
  /\ Len(calls) >= 3
  /\ BranchCalls # {}
  /\ \E i \in BranchCalls : calls[i].op = "set"
  /\ \E i \in BranchCalls : calls[i].op = "clone"
  /\ config.branch = ""
  /\ branch = "default"

====
